---------------------------- MODULE Spec2Model ----------------------------
(***************************************************************************)
(* A model of gsmmodem/modem.py: the GsmModem command channel (write), the *)
(* notification dispatcher (_handleModemNotification and the thread it     *)
(* starts), the incoming-call handler, the SMS pipeline, and the           *)
(* IncomingCall object (answer, sendDtmfTone, hangup).                     *)
(* connect(), signalStrength and waitForNetworkCoverage have their own     *)
(* specifications (ConnectSpec, CoverageSpec).                             *)
(*                                                                         *)
(* gsmmodem/serial_comms.py (class SerialComms: the transmit lock, the     *)
(* blocking wait for the terminal line, the reader thread) is not part of  *)
(* src/; the definitions that stand for it follow spec.md sections 4.1, 2  *)
(* and 5 and are marked as such.                                           *)
(*                                                                         *)
(* Threads: the consumer's thread (Main) and one thread per notification   *)
(* group (modem.py:156).  A thread's position is pc[t], its locals ctx[t]. *)
(* Steps that touch only a thread's own locals are taken together with the *)
(* step before them.                                                       *)
(***************************************************************************)
EXTENDS Integers, Sequences, FiniteSets, TLC

\* ------------------------------------------------------------------ bounds
\* Notification groups the modem emits in one run (one handler thread each).
MaxHandlers == 2
\* IncomingCall objects the consumer holds.
MaxCalls == 1
\* Ring notifications the modem emits while the consumer operates on calls
\* (specification CallSpec).
MaxRings == 1
\* Line groups the transport holds that the reader has not taken yet.
MaxRx == 1
\* The largest signal strength the modem reports, besides "unknown".
MaxCsq == 31
\* Readings one call of waitForNetworkCoverage takes.
MaxPolls == 2

\* ----------------------------------------------------------------- threads
Handlers == 1..MaxHandlers
Main == MaxHandlers + 1
Threads == Handlers \cup {Main}
NoThread == Main + 1

\* Python's None
None == "None"

\* ------------------------------------------------------------------ lines
\* The lines of the model are concrete modem lines; each regular expression
\* and string test of modem.py is tabulated on them (the tables are the
\* results of the expressions of modem.py on these strings).
RingPlain == "RING"
RingExtended == "+CRING: VOICE"
ClipNamed == "+CLIP: \"+27821234567\",145,,,\"Bob\""
ClipNoName == "+CLIP: \"+27821234567\",145,,,,0"
ClipOther == "+CLIP: \"0821234567\",129,,,,0"
ClipWithheld == "+CLIP: \"\",128,,,,0"
CmtiLine == "+CMTI: \"SM\",4"
CmtiBad == "+CMTI: \"SM\",x"
CmtiRing == "+CMTI: RING,1"
NoCarrier == "NO CARRIER"
CmgrHeader == "+CMGR: \"REC UNREAD\",\"+12025550123\",,\"23/01/01,12:00:00+02\""
CmgrPdu == "+CMGR: 0,,24"
LineOK == "OK"
LineERROR == "ERROR"
LineCME == "+CME ERROR: 30"
LineCMS == "+CMS ERROR: 321"

Number1 == "+27821234567"
Number2 == "0821234567"

\* 'RING' in firstLine
ContainsRING(line) == line \in {RingPlain, RingExtended, CmtiRing}

\* firstLine.startswith('+CMTI')
StartsWithCMTI(line) == line \in {CmtiLine, CmtiBad, CmtiRing}

\* 'ERROR' in cmdStatusLine
ContainsERROR(line) == line \in {LineERROR, LineCME, LineCMS}

\* CM_ERROR_REGEX.match(line).groups(), with int() applied to the code;
\* <<>> when the expression does not match.
CM_ERROR_REGEX(line) ==
    CASE line = LineCME -> <<"CME", 30>>
      [] line = LineCMS -> <<"CMS", 321>>
      [] OTHER -> <<>>

\* CLIP_REGEX.match(line): <<group(1), group(3)>>, <<>> when no match.
CLIP_REGEX(line) ==
    CASE line = ClipNamed -> <<Number1, "Bob">>
      [] line = ClipNoName -> <<Number1, None>>
      [] line = ClipOther -> <<Number2, None>>
      [] OTHER -> <<>>

\* CMTI_REGEX.match(line): <<group(1), group(2)>>, <<>> when no match.
CMTI_REGEX(line) ==
    CASE line = CmtiLine -> <<"\"SM\"", "4">>
      [] line = CmtiRing -> <<"RING", "1">>
      [] OTHER -> <<>>

\* CMGR_SM_DELIVER_REGEX.match(line).groups(), <<>> when no match.
CMGR_SM_DELIVER_REGEX(line) ==
    CASE line = CmgrHeader -> <<"REC UNREAD", "+12025550123", "23/01/01,12:00:00+02">>
      [] OTHER -> <<>>

\* ringLine.split(' ', 1)
SplitOnce(line) ==
    CASE line = RingExtended -> <<"+CRING:", "VOICE">>
      [] line = CmtiRing -> <<"+CMTI:", "RING,1">>
      [] line = NoCarrier -> <<"NO", "CARRIER">>
      [] OTHER -> <<line>>

\* ------------------------------------------------------- signal strength
\* The first line of the response to AT+CSQ is a sequence of characters;
\* CSQ_REGEX and int() work on the characters.
DigitChars == <<"0", "1", "2", "3", "4", "5", "6", "7", "8", "9">>

IsDigit(ch) == \E d \in 1..Len(DigitChars) : DigitChars[d] = ch

DigitValue(ch) == (CHOOSE d \in 1..Len(DigitChars) : DigitChars[d] = ch) - 1

\* The decimal digits of n, as the modem prints them.
RECURSIVE Digits(_)
Digits(n) ==
    IF n < Len(DigitChars) THEN <<DigitChars[n + 1]>>
    ELSE Digits(n \div Len(DigitChars)) \o <<DigitChars[(n % Len(DigitChars)) + 1]>>

\* int(csq.group(1))
RECURSIVE ParseInt(_)
ParseInt(digits) ==
    IF digits = <<>> THEN 0
    ELSE ParseInt(SubSeq(digits, 1, Len(digits) - 1)) * Len(DigitChars)
             + DigitValue(digits[Len(digits)])

CsqPrefix == <<"+", "C", "S", "Q", ":">>

\* The line '+CSQ: <n>,0' the modem reports signal strength n with.
CsqLine(n) == CsqPrefix \o <<" ">> \o Digits(n) \o <<",", "0">>

\* The line '+CSQ: ,0': no digits.
CsqNoDigits == CsqPrefix \o <<" ", ",", "0">>

\* The value the modem reports when the signal strength is not known
\* (modem.py:105).
CsqUnknown == 99

\* The signal strengths the modem reports.
Readings == 0..MaxCsq \cup {CsqUnknown}

\* CSQ_REGEX.match(line): <<group(1)>>, <<>> when no match.  The expression
\* is ^\+CSQ:\s*(\d+), : the prefix, blanks, a run of digits that is not
\* empty, a comma.
CSQ_REGEX(line) ==
    LET n == Len(line)
        start == CHOOSE i \in (Len(CsqPrefix) + 1)..(n + 1) :
                     /\ IF i > n THEN TRUE ELSE line[i] # " "
                     /\ \A k \in (Len(CsqPrefix) + 1)..(i - 1) : line[k] = " "
        stop == CHOOSE j \in start..(n + 1) :
                    /\ IF j > n THEN TRUE ELSE ~IsDigit(line[j])
                    /\ \A k \in start..(j - 1) : IsDigit(line[k])
    IN  IF n < Len(CsqPrefix) THEN <<>>
        ELSE IF SubSeq(line, 1, Len(CsqPrefix)) # CsqPrefix THEN <<>>
        ELSE IF stop = start THEN <<>>
        ELSE IF stop > n THEN <<>>
        ELSE IF line[stop] # "," THEN <<>>
        ELSE <<SubSeq(line, start, stop - 1)>>

\* ---------------------------------------------------------------- commands
Cmd(verb, arg) == [verb |-> verb, arg |-> arg]
NoCmd == Cmd("", <<>>)
ATA == Cmd("ATA", <<>>)
ATH == Cmd("ATH", <<>>)
CMGR(msgIndex) == Cmd("AT+CMGR=", <<msgIndex>>)
CMGD(msgIndex) == Cmd("AT+CMGD=", <<msgIndex>>)
CSQ == Cmd("AT+CSQ", <<>>)

\* GsmModem.connect, lines 39-69: the commands of bring-up, in the order of
\* the source.
ATZ == Cmd("ATZ", <<>>)
ATE0 == Cmd("ATE0", <<>>)
CFUN == Cmd("AT+CFUN=1", <<>>)
CMEE == Cmd("AT+CMEE=1", <<>>)
WIND == Cmd("AT+WIND=0", <<>>)
CMGF == Cmd("AT+CMGF=1", <<>>)
CSMP == Cmd("AT+CSMP=49,167", <<>>)
CPMS == Cmd("AT+CPMS=\"SM\",\"SM\",\"SR\"", <<>>)
CNMI == Cmd("AT+CNMI=2,1,0,2", <<>>)
CLIP == Cmd("AT+CLIP=1", <<>>)
CRC == Cmd("AT+CRC=1", <<>>)
CVHU == Cmd("AT+CVHU=0", <<>>)

BringUp == <<ATZ, ATE0, CFUN, CMEE, WIND, CMGF, CSMP, CPMS, CNMI, CLIP, CRC, CVHU>>

\* ';+VTS='.join(tones)
RECURSIVE Join(_, _)
Join(sep, items) ==
    IF Len(items) <= 1 THEN items
    ELSE <<Head(items), sep>> \o Join(sep, Tail(items))

\* The command sendDtmfTone builds (modem.py:280-283).
VTS(tones) ==
    IF Len(tones) > 1 THEN Cmd("AT+VTS=", Join(";+VTS=", tones))
    ELSE Cmd("AT+VTS=", tones)

\* The tone strings the consumer passes to sendDtmfTone.
ToneInputs == {<<"3">>, <<"1", "2">>}

\* --------------------------------------------------------- modem behaviour
\* The line groups the modem answers a command with.
Responses(cmd) ==
    IF cmd.verb = "AT+CMGR="
    THEN {<<CmgrHeader, "Hello", LineOK>>, <<CmgrPdu, "0791", LineOK>>,
          <<LineCMS>>}
    ELSE IF cmd \in {CMGF, CSMP, CPMS, CNMI}
    THEN {<<LineOK>>, <<LineERROR>>, <<LineCME>>, <<LineCMS>>}
    ELSE IF cmd = CSQ
    THEN {<<CsqLine(n), LineOK>> : n \in Readings}
             \cup {<<CsqNoDigits, LineOK>>, <<LineCME>>}
    ELSE {<<LineOK>>, <<LineERROR>>, <<LineCME>>}

\* The unsolicited line groups the modem emits.
NotificationGroups ==
    {<<RingPlain>>, <<RingExtended, ClipNamed>>, <<CmtiLine>>, <<NoCarrier>>}

\* The line groups the dispatcher is exercised with: the groups above, a
\* first line that both contains RING and starts with +CMTI, and groups
\* whose second line alone contains RING or starts with +CMTI.
DispatchGroups ==
    NotificationGroups
        \cup {<<CmtiRing>>, <<NoCarrier, RingPlain>>, <<NoCarrier, CmtiLine>>,
              <<CmtiLine, RingPlain>>}

\* -------------------------------------------------------------- outcomes
\* What a write() ends with: the lines, or the exception it raises.
Outcome(exc, type, code, lines) ==
    [exc |-> exc, type |-> type, code |-> code, lines |-> lines]

NoSms == [status |-> None, number |-> None, time |-> None, text |-> <<>>]

VARIABLES
    callingLineIdentification,      \* GsmModem._callingLineIdentification
    extendedIncomingCallIndication, \* GsmModem._extendedIncomingCallIndication
    activeCalls,    \* GsmModem.activeCalls: set of <<number, call>> entries
    calls,          \* the IncomingCall objects
    txLock,         \* the thread inside SerialComms.write, or NoThread
    modemCmd,       \* the command the modem has received and not answered
    rx,             \* line groups the transport has received, oldest first
    readerCall,     \* the handler whose body the reader thread is running
    pc,             \* each thread's position
    ctx,            \* each thread's locals
    log,            \* each handler thread's events, oldest first
    ret,            \* how the consumer's last operation ended
    ataSent         \* per call: ATA has been handed to the transport

vars == <<callingLineIdentification, extendedIncomingCallIndication,
          activeCalls, calls, txLock, modemCmd, rx, readerCall, pc, ctx,
          log, ret, ataSent>>

NoCtx ==
    [kind |-> "", op |-> "", call |-> 0, cmd |-> NoCmd, parseError |-> TRUE,
     lines |-> <<>>, resp |-> <<>>, timedOut |-> FALSE, err |-> "",
     number |-> None, name |-> None, type |-> None, tonBound |-> FALSE,
     msgIndex |-> "", sms |-> NoSms, sent |-> <<>>, results |-> <<>>,
     block |-> TRUE, timer |-> "none", readings |-> <<>>]

\* How an operation of the consumer's thread ended: what it returned or
\* raised, and whether it handed a command to the transport.
Ret(val, wrote) == [val |-> val, wrote |-> wrote]
NoRet == Ret("", FALSE)

\* The threads inside SerialComms.write: the command of each has been
\* handed to the transport and its caller has not been resumed.
InFlight == {t \in Threads : pc[t] \in {"w_wait", "w_wake"}}

\* A thread that has ended, normally or by an uncaught exception.
Terminated(t) == pc[t] \in {"done", "dead"}

\* The locals of a thread that an uncaught exception ends.
Raised(c, exc) ==
    [c EXCEPT !.err = exc, !.cmd = NoCmd, !.resp = <<>>, !.timedOut = FALSE]

\* The locals of a thread that has returned from a write().
Returned(c) == [c EXCEPT !.cmd = NoCmd, !.resp = <<>>, !.timedOut = FALSE]

\* IncomingCall.__init__ (lines 239-258).
IncomingCallInit(number, ton, callerName, callType) ==
    [number |-> number, ton |-> ton, callerName |-> callerName,
     type |-> callType, ringing |-> TRUE, answered |-> FALSE, ringCount |-> 1]

CallIds == 1..MaxCalls

\* ------------------------------------------------------------------- Init
\* The state after GsmModem.__init__ and connect(): connect() leaves the two
\* capability flags in one of three combinations (AT+CRC=1 is only tried
\* when AT+CLIP=1 succeeded).  Line 197 is the only place of modem.py that
\* constructs an IncomingCall and it is never reached (see
\* HandleIncomingCallRegistry), so the IncomingCall objects of the model are
\* objects the consumer has constructed: they are as __init__ leaves them.
InitWith(flagPairs, numbers) ==
    /\ \E flags \in flagPairs :
          /\ callingLineIdentification = flags[1]
          /\ extendedIncomingCallIndication = flags[2]
    /\ activeCalls = {}
    /\ calls \in [CallIds -> {IncomingCallInit(n, None, None, None) :
                                n \in numbers}]
    /\ txLock = NoThread
    /\ modemCmd = NoCmd
    /\ rx = <<>>
    /\ readerCall = NoThread
    /\ pc = [t \in Threads |-> IF t = Main THEN "idle" ELSE "unborn"]
    /\ ctx = [t \in Threads |-> NoCtx]
    /\ log = [t \in Handlers |-> <<>>]
    /\ ret = NoRet
    /\ ataSent = [c \in CallIds |-> FALSE]

FlagPairs == {<<FALSE, FALSE>>, <<TRUE, FALSE>>, <<TRUE, TRUE>>}

Init == InitWith(FlagPairs, {None, Number1})

\* ------------------------------------------------- SerialComms (transport)
\* An event of a handler thread: a command handed to the transport ("tx"),
\* a write() that ended ("ret", with the lines it returned or the exception
\* it raised), the delivery callback invoked ("cb").
Event(ev, cmd, exc, lines) == [ev |-> ev, cmd |-> cmd, exc |-> exc, lines |-> lines]
Tx(cmd) == Event("tx", cmd, "", <<>>)
Ended(cmd, out) == Event("ret", cmd, out.exc, out.lines)
Callback == Event("cb", NoCmd, "", <<>>)

\* Handing a command's bytes to the transport.  The handler threads' events
\* and the calls ATA was written for are recorded here.
Transmit(t, cmd) ==
    /\ modemCmd' = cmd
    /\ log' = IF t \in Handlers
              THEN [log EXCEPT ![t] = Append(@, Tx(cmd))]
              ELSE log
    /\ ataSent' = IF t = Main /\ cmd = ATA
                  THEN [ataSent EXCEPT ![ctx[t].call] = TRUE]
                  ELSE ataSent

\* SerialComms.write(data, waitForResponse=True, timeout): the caller enters
\* when no other command is in flight, its bytes go to the transport, and it
\* is suspended until the terminal line or the timeout.
SerialCommsWrite(t, cmd) ==
    /\ txLock = NoThread
    /\ txLock' = t
    /\ Transmit(t, cmd)
    /\ pc' = [pc EXCEPT ![t] = "w_wait"]

\* The bytes go to the transport without entering SerialComms.write.
WriteUnserialized(t) ==
    /\ pc[t] = "w_lock"
    /\ txLock' = txLock
    /\ Transmit(t, ctx[t].cmd)
    /\ pc' = [pc EXCEPT ![t] = "w_wait"]
    /\ UNCHANGED <<callingLineIdentification, extendedIncomingCallIndication,
                   activeCalls, calls, rx, readerCall, ctx, ret>>

\* GsmModem.write, line 87: the call of SerialComms.write.
Write(t) ==
    /\ pc[t] = "w_lock"
    /\ SerialCommsWrite(t, ctx[t].cmd)
    /\ UNCHANGED <<callingLineIdentification, extendedIncomingCallIndication,
                   activeCalls, calls, rx, readerCall, ctx, ret>>

\* SerialComms.write: no terminal line within the timeout.
WriteTimeout(t) ==
    /\ pc[t] = "w_wait"
    /\ modemCmd = ctx[t].cmd
    /\ modemCmd' = NoCmd
    /\ pc' = [pc EXCEPT ![t] = "w_wake"]
    /\ ctx' = [ctx EXCEPT ![t].timedOut = TRUE]
    /\ UNCHANGED <<callingLineIdentification, extendedIncomingCallIndication,
                   activeCalls, calls, txLock, rx, readerCall, log, ret, ataSent>>

\* write() takes no account of parseError.
WriteResultAlwaysParsed(responseLines, parseError) ==
    LET cmdStatusLine == responseLines[Len(responseLines)]
        cmErrorMatch == CM_ERROR_REGEX(cmdStatusLine)
    IN  IF ContainsERROR(cmdStatusLine)
        THEN IF cmErrorMatch # <<>>
             THEN Outcome("CommandError", cmErrorMatch[1], <<cmErrorMatch[2]>>, <<>>)
             ELSE Outcome("CommandError", None, <<>>, <<>>)
        ELSE Outcome("ok", None, <<>>, responseLines)

\* GsmModem.write, lines 88-97: the result for the received lines.
WriteResult(responseLines, parseError) ==
    LET cmdStatusLine == responseLines[Len(responseLines)]
        cmErrorMatch == CM_ERROR_REGEX(cmdStatusLine)
    IN  IF parseError /\ ContainsERROR(cmdStatusLine)
        THEN IF cmErrorMatch # <<>>
             THEN Outcome("CommandError", cmErrorMatch[1], <<cmErrorMatch[2]>>, <<>>)
             ELSE Outcome("CommandError", None, <<>>, <<>>)
        ELSE Outcome("ok", None, <<>>, responseLines)

\* What the write() of a resumed thread ends with: TimeoutException from
\* SerialComms.write, or the result of GsmModem.write.
WriteOutcome(t) ==
    IF ctx[t].timedOut
    THEN Outcome("TimeoutException", None, <<>>, <<>>)
    ELSE WriteResult(ctx[t].resp, ctx[t].parseError)

\* The thread leaves SerialComms.write: the next command may enter.
LeaveWrite(t) ==
    /\ pc[t] = "w_wake"
    /\ txLock' = IF txLock = t THEN NoThread ELSE txLock

\* The locals of a thread that calls write(cmd) on behalf of op; the thread
\* goes on at "w_lock" and is resumed at "w_wake".
StartWrite(c, op, cmd) == [c EXCEPT !.op = op, !.cmd = cmd]

\* ------------------------------------------------------------- the modem
ModemRespond(lines) ==
    /\ modemCmd # NoCmd
    /\ Len(rx) < MaxRx
    /\ rx' = Append(rx, [kind |-> "resp", lines |-> lines])
    /\ modemCmd' = NoCmd
    /\ UNCHANGED <<callingLineIdentification, extendedIncomingCallIndication,
                   activeCalls, calls, txLock, readerCall, pc, ctx, log, ret,
                   ataSent>>

\* The notification groups emitted so far: in the transport, or handled.
Notified ==
    Cardinality({h \in Handlers : pc[h] # "unborn"})
        + Len(SelectSeq(rx, LAMBDA g : g.kind = "notif"))

ModemNotify(lines) ==
    /\ Notified < MaxHandlers
    /\ Len(rx) < MaxRx
    /\ rx' = Append(rx, [kind |-> "notif", lines |-> lines])
    /\ UNCHANGED <<callingLineIdentification, extendedIncomingCallIndication,
                   activeCalls, calls, txLock, modemCmd, readerCall, pc, ctx,
                   log, ret, ataSent>>

\* ------------------------------------------------------ the reader thread
\* The reader runs no notification handling of its own.
ReaderFree == IF readerCall = NoThread THEN TRUE ELSE Terminated(readerCall)

\* The handler thread a notification group gets.
NewThread == CHOOSE h \in Handlers :
                 /\ pc[h] = "unborn"
                 /\ \A g \in Handlers : pc[g] = "unborn" => h <= g

\* The notification is handled on the reader thread itself.
HandleModemNotificationInline(lines) ==
    /\ pc' = [pc EXCEPT ![NewThread] = "start"]
    /\ ctx' = [ctx EXCEPT ![NewThread].lines = lines]
    /\ readerCall' = NewThread

\* GsmModem._handleModemNotification: start a thread and return.
HandleModemNotification(lines) ==
    /\ pc' = [pc EXCEPT ![NewThread] = "start"]
    /\ ctx' = [ctx EXCEPT ![NewThread].lines = lines]
    /\ readerCall' = NoThread

\* The reader takes a response: it resolves the pending command.
ReaderDeliverResponse ==
    /\ ReaderFree
    /\ rx # <<>>
    /\ Head(rx).kind = "resp"
    /\ \E t \in Threads :
          /\ pc[t] = "w_wait"
          /\ pc' = [pc EXCEPT ![t] = "w_wake"]
          /\ ctx' = [ctx EXCEPT ![t].resp = Head(rx).lines]
    /\ rx' = Tail(rx)
    /\ UNCHANGED <<callingLineIdentification, extendedIncomingCallIndication,
                   activeCalls, calls, txLock, modemCmd, readerCall, log, ret,
                   ataSent>>

\* The reader takes an unclaimed line group: the notification callback.
ReaderNotify ==
    /\ ReaderFree
    /\ rx # <<>>
    /\ Head(rx).kind = "notif"
    /\ HandleModemNotification(Head(rx).lines)
    /\ rx' = Tail(rx)
    /\ UNCHANGED <<callingLineIdentification, extendedIncomingCallIndication,
                   activeCalls, calls, txLock, modemCmd, log, ret, ataSent>>

\* ------------------------------------------------- notification handling
\* GsmModem._handleIncomingCall, lines 175-191: the locals at line 193, from
\* the ring line and the caller-ID line.  ringLine.split(' ', 1)[1] raises
\* IndexError on a ring line without a space; ton is assigned only on the
\* two else branches.
HandleIncomingCallParse(c) ==
    LET ringLine == Head(c.lines)
        lines == Tail(c.lines)
        parts == SplitOnce(ringLine)
        callType == IF extendedIncomingCallIndication THEN parts[2] ELSE None
        clipMatch == CLIP_REGEX(Head(lines))
    IN  IF extendedIncomingCallIndication /\ Len(parts) < 2
        THEN Raised([c EXCEPT !.lines = lines], "IndexError")
        ELSE IF callingLineIdentification /\ Len(lines) > 0
        THEN IF clipMatch # <<>>
             THEN [c EXCEPT !.lines = Tail(lines), !.type = callType,
                            !.number = clipMatch[1], !.name = clipMatch[2],
                            !.tonBound = FALSE]
             ELSE [c EXCEPT !.lines = Tail(lines), !.type = callType,
                            !.number = None, !.name = None, !.tonBound = TRUE]
        ELSE [c EXCEPT !.lines = lines, !.type = callType,
                       !.number = None, !.name = None, !.tonBound = TRUE]

\* GsmModem._handleSmsReceived, lines 204-208, and _readStoredSmsMessage,
\* line 217: the locals when the indication matches and the read of the
\* message starts; with no match the handler returns.
HandleSmsReceived(c) ==
    LET cmtiMatch == CMTI_REGEX(c.lines[1])
    IN  IF cmtiMatch # <<>>
        THEN StartWrite([c EXCEPT !.msgIndex = cmtiMatch[2]], "read",
                        CMGR(cmtiMatch[2]))
        ELSE c

\* The new-message test is made before the ring test.
ClassifySmsFirst(lines) ==
    LET firstLine == lines[1]
    IN  IF StartsWithCMTI(firstLine) THEN "sms"
        ELSE IF ContainsRING(firstLine) THEN "call"
        ELSE "unhandled"

\* The handling of a group: "call", "sms" or "unhandled" (lines 164-172).
Classify(lines) ==
    LET firstLine == lines[1]
    IN  IF ContainsRING(firstLine) THEN "call"
        ELSE IF StartsWithCMTI(firstLine) THEN "sms"
        ELSE "unhandled"

\* GsmModem.__threadedHandleModemNotification: classify the first line and
\* run the handler up to its first step that other threads can observe.
ThreadedHandleModemNotification(h) ==
    /\ pc[h] = "start"
    /\ LET kind == Classify(ctx[h].lines)
           c == [ctx[h] EXCEPT !.kind = kind]
           call == HandleIncomingCallParse(c)
           sms == HandleSmsReceived(c)
       IN  CASE kind = "call" ->
                  /\ ctx' = [ctx EXCEPT ![h] = call]
                  /\ pc' = [pc EXCEPT ![h] = IF call.err # "" THEN "dead"
                                              ELSE "registry"]
             [] kind = "sms" ->
                  /\ ctx' = [ctx EXCEPT ![h] = sms]
                  /\ pc' = [pc EXCEPT ![h] = IF sms.cmd # NoCmd THEN "w_lock"
                                              ELSE "done"]
             [] OTHER ->
                  /\ ctx' = [ctx EXCEPT ![h] = c]
                  /\ pc' = [pc EXCEPT ![h] = "done"]
    /\ UNCHANGED <<callingLineIdentification, extendedIncomingCallIndication,
                   activeCalls, calls, txLock, modemCmd, rx, readerCall, log,
                   ret, ataSent>>

\* GsmModem._handleIncomingCall, lines 193-199.  Line 193 reads
\* self._activeCalls; __init__ (line 33) assigns self.activeCalls and nothing
\* in modem.py assigns _activeCalls, so the read raises AttributeError:
\* lines 194-199 (ring count, new IncomingCall, registration, callback) are
\* never executed.
HandleIncomingCallRegistry(h) ==
    /\ pc[h] = "registry"
    /\ pc' = [pc EXCEPT ![h] = "dead"]
    /\ ctx' = [ctx EXCEPT ![h] = Raised(@, "AttributeError")]
    /\ UNCHANGED <<callingLineIdentification, extendedIncomingCallIndication,
                   activeCalls, calls, txLock, modemCmd, rx, readerCall, log,
                   ret, ataSent>>

\* ------------------------------------------------------------ SMS pipeline
\* msgText = '\n'.join(msgData[1:-1]), kept as the sequence of body lines.
MsgText(msgData) == SubSeq(msgData, 2, Len(msgData) - 1)

\* ReceivedSms(msgStatus, number, msgTime, msgText) (lines 224-227).
ReceivedSms(cmgrMatch, msgData) ==
    [status |-> cmgrMatch[1], number |-> cmgrMatch[2], time |-> cmgrMatch[3],
     text |-> MsgText(msgData)]

\* GsmModem._readStoredSmsMessage, lines 218-227, then _handleSmsReceived,
\* line 210: out is what write('AT+CMGR=<index>') ended with.  An exception
\* ends the thread; a header that does not match raises CommandError; else
\* the delete of the message starts.
SmsRead(h, out) ==
    LET msgData == out.lines
        cmgrMatch == CMGR_SM_DELIVER_REGEX(msgData[1])
        ended == Ended(ctx[h].cmd, out)
    IN  /\ log' = [log EXCEPT ![h] = Append(@, ended)]
        /\ IF out.exc # "ok"
           THEN /\ pc' = [pc EXCEPT ![h] = "dead"]
                /\ ctx' = [ctx EXCEPT ![h] = Raised(@, out.exc)]
           ELSE IF cmgrMatch = <<>>
           THEN /\ pc' = [pc EXCEPT ![h] = "dead"]
                /\ ctx' = [ctx EXCEPT ![h] = Raised(@, "CommandError")]
           ELSE /\ pc' = [pc EXCEPT ![h] = "w_lock"]
                /\ ctx' = [ctx EXCEPT ![h] =
                     StartWrite([Returned(@) EXCEPT
                                    !.sms = ReceivedSms(cmgrMatch, msgData)],
                                "delete", CMGD(ctx[h].msgIndex))]

\* The thread is resumed in write('AT+CMGR=<index>').
ReadStoredSmsMessage(h) ==
    /\ ctx[h].op = "read"
    /\ LeaveWrite(h)
    /\ SmsRead(h, WriteOutcome(h))
    /\ UNCHANGED <<callingLineIdentification, extendedIncomingCallIndication,
                   activeCalls, calls, modemCmd, rx, readerCall, ret, ataSent>>

\* The callback is invoked whatever the delete ended with.
SmsDeletedAlwaysCallback(h, out) ==
    /\ log' = [log EXCEPT ![h] =
                 @ \o <<Ended(ctx[h].cmd, out), Callback>>]
    /\ pc' = [pc EXCEPT ![h] = "done"]
    /\ ctx' = [ctx EXCEPT ![h] = Returned(@)]

\* GsmModem._deleteStoredMessage, line 230, then _handleSmsReceived, line
\* 212: out is what write('AT+CMGD=<index>') ended with.  An exception ends
\* the thread; else self.smsReceivedCallback(sms) is invoked.
SmsDeleted(h, out) ==
    IF out.exc # "ok"
    THEN /\ log' = [log EXCEPT ![h] = Append(@, Ended(ctx[h].cmd, out))]
         /\ pc' = [pc EXCEPT ![h] = "dead"]
         /\ ctx' = [ctx EXCEPT ![h] = Raised(@, out.exc)]
    ELSE /\ log' = [log EXCEPT ![h] =
                      @ \o <<Ended(ctx[h].cmd, out), Callback>>]
         /\ pc' = [pc EXCEPT ![h] = "done"]
         /\ ctx' = [ctx EXCEPT ![h] = Returned(@)]

\* The thread is resumed in write('AT+CMGD=<index>').
DeleteStoredMessage(h) ==
    /\ ctx[h].op = "delete"
    /\ LeaveWrite(h)
    /\ SmsDeleted(h, WriteOutcome(h))
    /\ UNCHANGED <<callingLineIdentification, extendedIncomingCallIndication,
                   activeCalls, calls, modemCmd, rx, readerCall, ret, ataSent>>

\* ------------------------------------------------------------ IncomingCall
\* The call's state, from its two flags.
CallState(call) ==
    IF call.ringing /\ ~call.answered THEN "RINGING"
    ELSE IF call.answered /\ ~call.ringing THEN "ANSWERED"
    ELSE IF ~call.ringing /\ ~call.answered THEN "ENDED"
    ELSE "BOTH"

\* The consumer's thread calls write(cmd) inside operation op on call c.
MainWrites(op, c, cmd) ==
    /\ pc' = [pc EXCEPT ![Main] = "w_lock"]
    /\ ctx' = [ctx EXCEPT ![Main] = StartWrite([@ EXCEPT !.call = c], op, cmd)]
    /\ ret' = NoRet

\* IncomingCall.answer, line 268: return self.
AnswerResult(c) == "self"

\* answer() sends ATA whatever the state of the call.
AnswerUnguarded(c) ==
    /\ pc[Main] = "idle"
    /\ MainWrites("answer", c, ATA)
    /\ UNCHANGED <<callingLineIdentification, extendedIncomingCallIndication,
                   activeCalls, calls, txLock, modemCmd, rx, readerCall, log,
                   ataSent>>

\* IncomingCall.answer, lines 264-265 and 268: the call of write('ATA') when
\* the call is ringing, else return self.
Answer(c) ==
    /\ pc[Main] = "idle"
    /\ IF calls[c].ringing
       THEN MainWrites("answer", c, ATA)
       ELSE /\ ret' = Ret(AnswerResult(c), FALSE)
            /\ UNCHANGED <<pc, ctx>>
    /\ UNCHANGED <<callingLineIdentification, extendedIncomingCallIndication,
                   activeCalls, calls, txLock, modemCmd, rx, readerCall, log,
                   ataSent>>

\* answer() marks the call answered and leaves it ringing.
AnsweredStillRinging(call) == [call EXCEPT !.answered = TRUE]

\* IncomingCall.answer, lines 266-267.
Answered(call) == [call EXCEPT !.ringing = FALSE, !.answered = TRUE]

\* IncomingCall.answer, lines 265-268: the thread is resumed in write('ATA').
AnswerReturn ==
    /\ ctx[Main].op = "answer"
    /\ LeaveWrite(Main)
    /\ LET c == ctx[Main].call
           out == WriteOutcome(Main)
       IN  IF out.exc = "ok"
           THEN /\ calls' = [calls EXCEPT ![c] = Answered(@)]
                /\ ret' = Ret(AnswerResult(c), TRUE)
           ELSE /\ calls' = calls
                /\ ret' = Ret(out.exc, TRUE)
    /\ pc' = [pc EXCEPT ![Main] = "idle"]
    /\ ctx' = [ctx EXCEPT ![Main] = NoCtx]
    /\ UNCHANGED <<callingLineIdentification, extendedIncomingCallIndication,
                   activeCalls, modemCmd, rx, readerCall, log, ataSent>>

\* sendDtmfTone() sends the tones whatever the state of the call.
SendDtmfToneUnguarded(c, tones) ==
    /\ pc[Main] = "idle"
    /\ MainWrites("dtmf", c, VTS(tones))
    /\ UNCHANGED <<callingLineIdentification, extendedIncomingCallIndication,
                   activeCalls, calls, txLock, modemCmd, rx, readerCall, log,
                   ataSent>>

\* IncomingCall.sendDtmfTone, lines 279-286: the call of write(cmd) when the
\* call is answered, else InvalidStateException.
SendDtmfTone(c, tones) ==
    /\ pc[Main] = "idle"
    /\ IF calls[c].answered
       THEN MainWrites("dtmf", c, VTS(tones))
       ELSE /\ ret' = Ret("InvalidStateException", FALSE)
            /\ UNCHANGED <<pc, ctx>>
    /\ UNCHANGED <<callingLineIdentification, extendedIncomingCallIndication,
                   activeCalls, calls, txLock, modemCmd, rx, readerCall, log,
                   ataSent>>

\* IncomingCall.sendDtmfTone, line 284: the thread is resumed in write(cmd).
SendDtmfToneReturn ==
    /\ ctx[Main].op = "dtmf"
    /\ LeaveWrite(Main)
    /\ LET out == WriteOutcome(Main)
       IN  ret' = Ret(IF out.exc = "ok" THEN None ELSE out.exc, TRUE)
    /\ pc' = [pc EXCEPT ![Main] = "idle"]
    /\ ctx' = [ctx EXCEPT ![Main] = NoCtx]
    /\ UNCHANGED <<callingLineIdentification, extendedIncomingCallIndication,
                   activeCalls, calls, modemCmd, rx, readerCall, log, ataSent>>

\* IncomingCall.hangup, lines 292-296.  Line 292 calls self.write; an
\* IncomingCall has no attribute write (the modem is self._gsmModem), so the
\* call raises AttributeError: lines 293-296 (the flags, the removal from
\* activeCalls) are never executed and nothing is written.  The locals keep
\* the call the exception was raised for.
Hangup(c) ==
    /\ pc[Main] = "idle"
    /\ ret' = Ret("AttributeError", FALSE)
    /\ ctx' = [ctx EXCEPT ![Main] =
                 Raised([NoCtx EXCEPT !.op = "hangup", !.call = c],
                        "AttributeError")]
    /\ UNCHANGED <<callingLineIdentification, extendedIncomingCallIndication,
                   activeCalls, calls, txLock, modemCmd, rx, readerCall, pc,
                   log, ataSent>>

\* ------------------------------------------------------------- bring-up
\* The statement of connect() after the write of cmd, NoCmd after the last.
Following(cmd) ==
    LET i == CHOOSE k \in 1..Len(BringUp) : BringUp[k] = cmd
    IN  IF i < Len(BringUp) THEN BringUp[i + 1] ELSE NoCmd

\* Every write of connect() parses the error line.
ConnectParseErrorAlways(cmd) == TRUE

\* The parseError argument of the write: False for AT+WIND=0 (line 44).
ConnectParseError(cmd) == cmd # WIND

\* No write of connect() is inside a try statement.
ConnectNothingCaught(cmd, exc) == FALSE

\* The except clauses of lines 55 and 62: CommandError of AT+CLIP=1 and of
\* AT+CRC=1 is caught; nothing else is.
ConnectCaught(cmd, exc) == exc = "CommandError" /\ cmd \in {CLIP, CRC}

\* connect() after write(cmd) ended with out: the exception it lets
\* through ("" for none), the command it writes next (NoCmd when it is
\* done), and the two capability flags.
ConnectStep(cmd, out) ==
    LET caught == ConnectCaught(cmd, out.exc)
        ok == out.exc = "ok"
    IN  [raise |-> IF ok \/ caught THEN "" ELSE out.exc,
         next |-> IF ok THEN Following(cmd)
                  ELSE IF caught THEN CVHU
                  ELSE NoCmd,
         cli |-> IF cmd = CLIP /\ (ok \/ caught) THEN ok
                 ELSE callingLineIdentification,
         ext |-> IF cmd = CRC /\ (ok \/ caught) THEN ok
                 ELSE extendedIncomingCallIndication]

\* The consumer's thread calls write(cmd) inside connect().
ConnectWrites(cmd) ==
    [StartWrite(ctx[Main], "connect", cmd) EXCEPT
        !.parseError = ConnectParseError(cmd),
        !.sent = Append(@, cmd)]

\* GsmModem.connect, line 39: the first write.
Connect ==
    /\ pc[Main] = "idle"
    /\ ctx[Main].op = ""
    /\ pc' = [pc EXCEPT ![Main] = "w_lock"]
    /\ ctx' = [ctx EXCEPT ![Main] = ConnectWrites(ATZ)]
    /\ UNCHANGED <<callingLineIdentification, extendedIncomingCallIndication,
                   activeCalls, calls, txLock, modemCmd, rx, readerCall, log,
                   ret, ataSent>>

\* GsmModem.connect, lines 39-69: the thread is resumed in a write; the
\* exception aborts connect(), or the flags are set and the next command is
\* written, or connect() returns.
ConnectReturn ==
    /\ ctx[Main].op = "connect"
    /\ LeaveWrite(Main)
    /\ LET out == WriteOutcome(Main)
           step == ConnectStep(ctx[Main].cmd, out)
           c == [ctx[Main] EXCEPT !.results = Append(@, out)]
       IN  /\ callingLineIdentification' = step.cli
           /\ extendedIncomingCallIndication' = step.ext
           /\ IF step.raise # ""
              THEN /\ pc' = [pc EXCEPT ![Main] = "idle"]
                   /\ ctx' = [ctx EXCEPT ![Main] = Raised(c, step.raise)]
                   /\ ret' = Ret(step.raise, TRUE)
              ELSE IF step.next = NoCmd
              THEN /\ pc' = [pc EXCEPT ![Main] = "idle"]
                   /\ ctx' = [ctx EXCEPT ![Main] = Returned(c)]
                   /\ ret' = Ret(None, TRUE)
              ELSE /\ pc' = [pc EXCEPT ![Main] = "w_lock"]
                   /\ ctx' = [ctx EXCEPT ![Main] =
                                [ConnectWrites(step.next) EXCEPT
                                    !.results = c.results]]
                   /\ ret' = ret
    /\ UNCHANGED <<activeCalls, calls, modemCmd, rx, readerCall, log, ataSent>>

\* -------------------------------------------------------- network coverage
\* How signalStrength or waitForNetworkCoverage ended: with the integer it
\* returned, or with an exception and the place that raised it (the write,
\* the parse of signalStrength, or the polling loop).
Value(n) == [val |-> "int", wrote |-> TRUE, int |-> n, at |-> "return"]
Raises(exc, where) == [val |-> exc, wrote |-> TRUE, int |-> 0, at |-> where]

\* signalStrength returns the number the modem reports.
SignalStrengthValueRaw(ss) == ss

\* GsmModem.signalStrength, line 105: ss if ss != 99 else -1.
SignalStrengthValue(ss) == IF ss # CsqUnknown THEN ss ELSE -1

\* GsmModem.signalStrength, lines 102-107, after write('AT+CSQ') returned
\* lines: the value returned, or CommandError.
SignalStrengthResult(lines) ==
    LET csq == CSQ_REGEX(lines[1])
    IN  IF csq # <<>>
        THEN Value(SignalStrengthValue(ParseInt(csq[1])))
        ELSE Raises("CommandError", "signalStrength")

\* What the read of self.signalStrength ends with, for what its write
\* ended with.
SignalStrengthOutcome(out) ==
    IF out.exc # "ok" THEN Raises(out.exc, "write")
    ELSE SignalStrengthResult(out.lines)

\* GsmModem.signalStrength, line 102: the call of write('AT+CSQ').
SignalStrength ==
    /\ pc[Main] = "idle"
    /\ pc' = [pc EXCEPT ![Main] = "w_lock"]
    /\ ctx' = [ctx EXCEPT ![Main] = StartWrite(NoCtx, "signalStrength", CSQ)]
    /\ ret' = NoRet
    /\ UNCHANGED <<callingLineIdentification, extendedIncomingCallIndication,
                   activeCalls, calls, txLock, modemCmd, rx, readerCall, log,
                   ataSent>>

\* GsmModem.signalStrength, lines 102-107: the thread is resumed in the
\* write.
SignalStrengthReturn ==
    /\ ctx[Main].op = "signalStrength"
    /\ LeaveWrite(Main)
    /\ ret' = SignalStrengthOutcome(WriteOutcome(Main))
    /\ pc' = [pc EXCEPT ![Main] = "idle"]
    /\ ctx' = [ctx EXCEPT ![Main] = NoCtx]
    /\ UNCHANGED <<callingLineIdentification, extendedIncomingCallIndication,
                   activeCalls, calls, modemCmd, rx, readerCall, log, ataSent>>

\* GsmModem.waitForNetworkCoverage, lines 123-130: block = [True], the
\* timer started when a timeout is given, ss = -1.
WaitForNetworkCoverage(withTimeout) ==
    /\ pc[Main] = "idle"
    /\ pc' = [pc EXCEPT ![Main] = "poll"]
    /\ ctx' = [ctx EXCEPT ![Main] =
                 [NoCtx EXCEPT !.op = "waitForNetworkCoverage",
                               !.block = TRUE,
                               !.timer = IF withTimeout THEN "running"
                                         ELSE "none"]]
    /\ ret' = NoRet
    /\ UNCHANGED <<callingLineIdentification, extendedIncomingCallIndication,
                   activeCalls, calls, txLock, modemCmd, rx, readerCall, log,
                   ataSent>>

\* threading.Timer(timeout, _cancelBlock), lines 126-129: the timer thread
\* sets block[0] = False.  The timer is not cancelled when the call ends.
CancelBlock ==
    /\ ctx[Main].timer = "running"
    /\ ctx' = [ctx EXCEPT ![Main].block = FALSE, ![Main].timer = "fired"]
    /\ UNCHANGED <<callingLineIdentification, extendedIncomingCallIndication,
                   activeCalls, calls, txLock, modemCmd, rx, readerCall, pc,
                   log, ret, ataSent>>

\* GsmModem.waitForNetworkCoverage, lines 131-132 and 135-137: the test of
\* block[0]; the read of self.signalStrength starts, or the else clause of
\* the loop raises TimeoutException.
WaitLoop ==
    /\ pc[Main] = "poll"
    /\ IF ctx[Main].block
       THEN /\ Len(ctx[Main].readings) < MaxPolls
            /\ pc' = [pc EXCEPT ![Main] = "w_lock"]
            /\ ctx' = [ctx EXCEPT ![Main] = StartWrite(@, @.op, CSQ)]
            /\ ret' = ret
       ELSE /\ pc' = [pc EXCEPT ![Main] = "idle"]
            /\ ctx' = [ctx EXCEPT ![Main] = Raised(@, "TimeoutException")]
            /\ ret' = Raises("TimeoutException", "loop")
    /\ UNCHANGED <<callingLineIdentification, extendedIncomingCallIndication,
                   activeCalls, calls, txLock, modemCmd, rx, readerCall, log,
                   ataSent>>

\* if ss: (line 133) holds for every integer but 0.
Truthy(ss) == ss # 0

\* GsmModem.waitForNetworkCoverage, lines 132-134: the thread is resumed in
\* the write of signalStrength; an exception ends the call, a reading that
\* passes "if ss" is returned, else the thread goes to sleep.
WaitReturn ==
    /\ ctx[Main].op = "waitForNetworkCoverage"
    /\ LeaveWrite(Main)
    /\ LET result == SignalStrengthOutcome(WriteOutcome(Main))
           ss == result.int
       IN  IF result.val # "int"
           THEN /\ pc' = [pc EXCEPT ![Main] = "idle"]
                /\ ctx' = [ctx EXCEPT ![Main] = Raised(@, result.val)]
                /\ ret' = result
           ELSE /\ ctx' = [ctx EXCEPT ![Main] =
                             [Returned(@) EXCEPT !.readings = Append(@, ss)]]
                /\ IF Truthy(ss)
                   THEN /\ pc' = [pc EXCEPT ![Main] = "idle"]
                        /\ ret' = Value(ss)
                   ELSE /\ pc' = [pc EXCEPT ![Main] = "sleep"]
                        /\ ret' = ret
    /\ UNCHANGED <<callingLineIdentification, extendedIncomingCallIndication,
                   activeCalls, calls, modemCmd, rx, readerCall, log, ataSent>>

\* time.sleep(1), line 135.
WaitSleep ==
    /\ pc[Main] = "sleep"
    /\ pc' = [pc EXCEPT ![Main] = "poll"]
    /\ UNCHANGED <<callingLineIdentification, extendedIncomingCallIndication,
                   activeCalls, calls, txLock, modemCmd, rx, readerCall, ctx,
                   log, ret, ataSent>>

\* ------------------------------------------------------------------- Next
\* The command channel, the modem's answers and the reader.
Channel ==
    \/ \E t \in Threads : Write(t)
    \/ \E t \in Threads : WriteTimeout(t)
    \/ \E lines \in Responses(modemCmd) : ModemRespond(lines)
    \/ ReaderDeliverResponse
    \/ ReaderNotify
    \/ \E h \in Handlers : ThreadedHandleModemNotification(h)

Next ==
    \/ Channel
    \/ \E lines \in NotificationGroups : ModemNotify(lines)
    \/ \E h \in Handlers : HandleIncomingCallRegistry(h)
    \/ \E h \in Handlers : ReadStoredSmsMessage(h)
    \/ \E h \in Handlers : DeleteStoredMessage(h)
    \/ \E c \in CallIds : Answer(c)
    \/ AnswerReturn
    \/ \E c \in CallIds, tones \in ToneInputs : SendDtmfTone(c, tones)
    \/ SendDtmfToneReturn
    \/ \E c \in CallIds : Hangup(c)

\* The dispatcher, both handlers and the operations of IncomingCall.
Spec == Init /\ [][Next]_vars

\* The notification groups that are not call notifications.
SmsGroups == {g \in NotificationGroups : Classify(g) # "call"}

\* The call notifications.
RingGroups == {g \in NotificationGroups : Classify(g) = "call"}

\* The command channel shared by the SMS pipeline of the handler threads and
\* answer() of the consumer's thread.  No action of it reads the capability
\* flags or a call's number.
SmsNext ==
    \/ Channel
    \/ \E lines \in SmsGroups : ModemNotify(lines)
    \/ \E h \in Handlers : ReadStoredSmsMessage(h)
    \/ \E h \in Handlers : DeleteStoredMessage(h)
    \/ \E c \in CallIds : Answer(c)
    \/ AnswerReturn

SmsSpec == InitWith({<<TRUE, TRUE>>}, {Number1}) /\ [][SmsNext]_vars

\* The operations of IncomingCall on the consumer's thread, interleaved with
\* ring notifications.  No action of it reads a call's number.
CallNext ==
    \/ Channel
    \/ /\ Notified < MaxRings
       /\ \E lines \in RingGroups : ModemNotify(lines)
    \/ \E h \in Handlers : HandleIncomingCallRegistry(h)
    \/ \E c \in CallIds : Answer(c)
    \/ AnswerReturn
    \/ \E c \in CallIds, tones \in ToneInputs : SendDtmfTone(c, tones)
    \/ SendDtmfToneReturn
    \/ \E c \in CallIds : Hangup(c)

CallSpec == InitWith(FlagPairs, {Number1}) /\ [][CallNext]_vars

\* connect() on the consumer's thread, from the state __init__ leaves
\* (lines 29-31: both capability flags False).
ConnectNext ==
    \/ Connect
    \/ ConnectReturn
    \/ \E t \in Threads : Write(t)
    \/ \E t \in Threads : WriteTimeout(t)
    \/ \E lines \in Responses(modemCmd) : ModemRespond(lines)
    \/ ReaderDeliverResponse

ConnectSpec == InitWith({<<FALSE, FALSE>>}, {Number1}) /\ [][ConnectNext]_vars

\* signalStrength and waitForNetworkCoverage on the consumer's thread, with
\* the timer thread.
CoverageNext ==
    \/ SignalStrength
    \/ SignalStrengthReturn
    \/ \E withTimeout \in BOOLEAN : WaitForNetworkCoverage(withTimeout)
    \/ CancelBlock
    \/ WaitLoop
    \/ WaitReturn
    \/ WaitSleep
    \/ \E t \in Threads : Write(t)
    \/ \E t \in Threads : WriteTimeout(t)
    \/ \E lines \in Responses(modemCmd) : ModemRespond(lines)
    \/ ReaderDeliverResponse

CoverageSpec == InitWith({<<TRUE, TRUE>>}, {Number1}) /\ [][CoverageNext]_vars

\* The dispatcher and the two handlers it starts, with no operation of the
\* consumer.
DispatchNext ==
    \/ Channel
    \/ \E lines \in DispatchGroups : ModemNotify(lines)
    \/ \E h \in Handlers : HandleIncomingCallRegistry(h)
    \/ \E h \in Handlers : ReadStoredSmsMessage(h)
    \/ \E h \in Handlers : DeleteStoredMessage(h)

DispatchSpec == InitWith({<<TRUE, TRUE>>}, {Number1}) /\ [][DispatchNext]_vars

\* The scheduling the liveness of the command channel rests on: every
\* started thread keeps running (threading.Thread, modem.py:156), the reader
\* thread keeps taking what the transport received, and a pending write()
\* ends with its timeout at the latest (timeout=5, modem.py:71).  Nothing
\* is assumed of the modem.
SmsFairness ==
    /\ \A t \in Threads : WF_vars(WriteTimeout(t))
    /\ WF_vars(ReaderDeliverResponse)
    /\ WF_vars(ReaderNotify)
    /\ \A h \in Handlers : WF_vars(ThreadedHandleModemNotification(h))
    /\ \A h \in Handlers : WF_vars(ReadStoredSmsMessage(h))
    /\ \A h \in Handlers : WF_vars(DeleteStoredMessage(h))
    /\ WF_vars(AnswerReturn)

SmsFairSpec == SmsSpec /\ SmsFairness

\* ------------------------------------------------------------------ claims
\* A step in which the bytes of thread t's command go to the transport.
HandsToTransport(t) == pc[t] = "w_lock" /\ pc'[t] = "w_wait"

\* C1: single-flight.  In every reachable state at most one command issued
\* through write() is awaiting its terminal line, and the bytes of a second
\* caller's command (the consumer's thread or a notification-handling
\* thread) go to the transport only in a state where no command is pending:
\* the earlier one has been resumed with its lines, its error or its timeout
\* and has left the transport's write.
C1_SingleFlight ==
    /\ [](Cardinality(InFlight) <= 1)
    /\ [][\A t \in Threads : HandsToTransport(t) => InFlight = {}]_vars

\* C1, witness: one caller's command is pending and a second caller has
\* issued a command whose bytes have not gone to the transport.
C1_SecondCallerBlocked ==
    \E t, u \in Threads : t # u /\ pc[t] = "w_wait" /\ pc[u] = "w_lock"

\* A handler thread whose command is in the command channel.
Awaiting(h) == pc[h] \in {"w_wait", "w_wake"}

\* C2: _handleModemNotification returns to the reader without waiting for
\* the handling, so the reader is never blocked by a handler: whenever a
\* notification handler has a command pending in the command channel the
\* reader is free to deliver the response, and the command resolves.
C2_ReaderNeverBlocked ==
    /\ [](\A h \in Handlers : Awaiting(h) => ReaderFree)
    /\ \A h \in Handlers : Awaiting(h) ~> ~Awaiting(h)

\* C2, witness: a handler started by the reader is awaiting the terminal
\* line of a command it issued, and the response is in the transport for the
\* reader to deliver.
C2_HandlerAwaitsResponse ==
    \E h \in Handlers :
        /\ pc[h] = "w_wait"
        /\ rx # <<>>
        /\ Head(rx).kind = "resp"

\* The index of the message handler h was notified of.
NotifiedIndex(h) == CMTI_REGEX(ctx[h].lines[1])[2]

\* A write() that ended with an exception, or a read whose header line does
\* not match the +CMGR grammar.
FailedStep(e) ==
    /\ e.ev = "ret"
    /\ \/ e.exc # "ok"
       \/ e.cmd.verb = "AT+CMGR=" /\ CMGR_SM_DELIVER_REGEX(e.lines[1]) = <<>>

\* C3: SMS pipeline ordering.  For every new-message notification the
\* delivery callback is invoked only right after AT+CMGD=<index> for the
\* notified index succeeded; that delete is issued only after
\* AT+CMGR=<index> returned with a header line that matches the +CMGR
\* grammar; after a failed read, a header that does not match, or a failed
\* delete, the handler issues nothing more and never invokes the callback.
C3_SmsPipelineOrdering ==
    \A h \in Handlers :
        \A i \in 1..Len(log[h]) :
            LET e == log[h][i]
                prev == log[h][i - 1]
            IN  /\ e.ev = "cb" =>
                      /\ i > 1
                      /\ prev = Event("ret", CMGD(NotifiedIndex(h)), "ok", prev.lines)
                /\ (e.ev = "tx" /\ e.cmd.verb = "AT+CMGD=") =>
                      /\ i > 1
                      /\ e.cmd = CMGD(NotifiedIndex(h))
                      /\ prev = Event("ret", CMGR(NotifiedIndex(h)), "ok", prev.lines)
                      /\ CMGR_SM_DELIVER_REGEX(prev.lines[1]) # <<>>
                /\ FailedStep(e) => i = Len(log[h])

\* C3, witness: a handler has read the message, deleted it and invoked the
\* delivery callback.
C3_CallbackAfterDelete ==
    \E h \in Handlers :
        /\ pc[h] = "done"
        /\ log[h] # <<>>
        /\ log[h][Len(log[h])] = Callback

\* A handler thread whose ring notification has been handled to its end.
HandledRing(h) == Terminated(h) /\ ctx[h].kind = "call"

\* The registry entries under a caller number.
EntriesFor(number) == {e \in activeCalls : e[1] = number}

\* C4: registry uniqueness.  Under any interleaving of ring-notification
\* handlers with each other and with the consumer there is at most one live
\* call per caller number in the registry, and the handlers' accesses to the
\* registry are mutually exclusive: while one handler is at its access to
\* the registry (lines 193-198) no other handler is.
C4_RegistryUniqueAndExclusive ==
    /\ \A e1, e2 \in activeCalls : e1[1] = e2[1] => e1 = e2
    /\ Cardinality({h \in Handlers : pc[h] = "registry"}) <= 1

\* C5: registry lifecycle.  A ring notification with a known number leaves
\* a call registered under that number, and the entry stays until the call
\* is hung up; no call is ever ENDED (see Hangup), so after the handling of
\* such a notification the registry holds a live entry for its number.
C5_KnownCallerStaysRegistered ==
    \A h \in Handlers :
        (HandledRing(h) /\ ctx[h].number # None) =>
            \E e \in EntriesFor(ctx[h].number) :
                CallState(calls[e[2]]) # "ENDED"

\* The ring notifications handled so far that resolved to the number.
RingsHandled(number) ==
    Cardinality({h \in Handlers : HandledRing(h) /\ ctx[h].number = number})

\* C6: ring deduplication.  After n ring notifications for one known number
\* with no hangup between them, the registry holds exactly one entry for the
\* number and the ring count of its call is n.
C6_RingCountFollowsRings ==
    \A number \in {Number1, Number2} :
        RingsHandled(number) > 0 =>
            /\ Cardinality(EntriesFor(number)) = 1
            /\ \A e \in EntriesFor(number) :
                  calls[e[2]].ringCount = RingsHandled(number)

\* C7: a ring notification whose caller number is absent is never
\* deduplicated: the handling of each creates a fresh call record with ring
\* count 1, so once one is handled the registry holds a call with no
\* number and every such call has ring count 1.
C7_AbsentNumberFreshRecord ==
    RingsHandled(None) > 0 =>
        /\ EntriesFor(None) # {}
        /\ \A e \in EntriesFor(None) : calls[e[2]].ringCount = 1

\* The moves of a call's state the state machine allows.
CallMoves ==
    {<<"RINGING", "ANSWERED">>, <<"RINGING", "ENDED">>, <<"ANSWERED", "ENDED">>}

\* C8: call state machine.  Over any interleaving of answer(),
\* sendDtmfTone(), hangup() and ring notifications a call's state stays or
\* moves RINGING -> ANSWERED -> ENDED or RINGING -> ENDED (so nothing leaves
\* ENDED), and ringing and answered are never both true.
C8_CallStateMachine ==
    /\ [](\A c \in CallIds : CallState(calls[c]) # "BOTH")
    /\ [][\A c \in CallIds :
             \/ CallState(calls'[c]) = CallState(calls[c])
             \/ <<CallState(calls[c]), CallState(calls'[c])>> \in CallMoves]_vars

\* C8, witness: answer() has moved a call from RINGING to ANSWERED.
C8_CallAnswered ==
    \E c \in CallIds :
        /\ CallState(calls[c]) = "ANSWERED"
        /\ ret = Ret(AnswerResult(c), TRUE)

\* A step in which ATA goes to the transport for call c.
WritesATA(c) ==
    /\ HandsToTransport(Main)
    /\ ctx[Main].cmd = ATA
    /\ ctx[Main].call = c

\* C9 as stated: ATA is written at most once per call over any sequence of
\* answer() calls.
C9_AtaAtMostOnce == [][\A c \in CallIds : WritesATA(c) => ~ataSent[c]]_vars

\* C9, amended: answer() sends ATA only when the call is RINGING and the
\* call becomes ANSWERED only when that write returned; on a call that is
\* not RINGING answer() writes nothing to the transport, leaves the call
\* state unchanged and returns the call itself.  ATA is written again for a
\* call only while the call is still RINGING, that is after every earlier
\* write of ATA for it failed with an error or a timeout.
C9_AnswerOnlyWhenRinging ==
    [][\A c \in CallIds :
          /\ WritesATA(c) => CallState(calls[c]) = "RINGING"
          /\ (CallState(calls[c]) # "ANSWERED" /\ CallState(calls'[c]) = "ANSWERED") =>
                /\ ataSent[c]
                /\ ret' = Ret("self", TRUE)
          /\ (Answer(c) /\ CallState(calls[c]) # "RINGING") =>
                /\ ret' = Ret("self", FALSE)
                /\ UNCHANGED <<calls, activeCalls, txLock, modemCmd, rx, pc,
                               ctx, ataSent>>]_vars

\* C9, witness: answer() has succeeded and a further answer() on the
\* ANSWERED call has returned the call itself without a write.
C9_AnswerNoOp ==
    \E c \in CallIds :
        /\ CallState(calls[c]) = "ANSWERED"
        /\ ataSent[c]
        /\ ret = Ret("self", FALSE)

\* A step in which an AT+VTS command goes to the transport for call c.
WritesVTS(c) ==
    /\ HandsToTransport(Main)
    /\ ctx[Main].cmd.verb = "AT+VTS="
    /\ ctx[Main].call = c

\* C10: sendDtmfTone(tones) on a call that is not ANSWERED fails with
\* InvalidStateException, writes nothing to the transport and leaves the
\* call state and the registry unchanged; an AT+VTS command is written only
\* for an ANSWERED call.
C10_DtmfOnlyWhenAnswered ==
    [][\A c \in CallIds :
          /\ \A tones \in ToneInputs :
                (SendDtmfTone(c, tones) /\ CallState(calls[c]) # "ANSWERED") =>
                    /\ ret' = Ret("InvalidStateException", FALSE)
                    /\ UNCHANGED <<calls, activeCalls, txLock, modemCmd, rx,
                                   pc, ctx, ataSent>>
          /\ WritesVTS(c) => CallState(calls[c]) = "ANSWERED"]_vars

\* C10, witness: sendDtmfTone() on a RINGING call has raised
\* InvalidStateException and nothing was handed to the transport.
C10_DtmfRejected ==
    \E c \in CallIds :
        /\ CallState(calls[c]) = "RINGING"
        /\ ~ataSent[c]
        /\ modemCmd = NoCmd
        /\ ret = Ret("InvalidStateException", FALSE)

\* hangup() has been called on call c (and has ended).
HungUp(c) ==
    /\ pc[Main] = "idle"
    /\ ctx[Main].op = "hangup"
    /\ ctx[Main].call = c

\* C11: hangup() on a RINGING or ANSWERED call sends ATH through the
\* command channel and moves the call to ENDED, and after it returns the
\* registry has no entry under the call's number: once hangup() has ended,
\* the call is ENDED, nothing is registered under its number and the call
\* did not end with an exception of its own.
C11_HangupEndsCall ==
    \A c \in CallIds :
        HungUp(c) =>
            /\ CallState(calls[c]) = "ENDED"
            /\ EntriesFor(calls[c].number) = {}
            /\ ctx[Main].err = ""

\* C12: hangup() is idempotent.  A hangup() on a call that hangup() has
\* been called on before is a no-op: it ends without an exception, writes
\* no ATH to the transport and changes neither the call nor the registry.
C12_SecondHangupIsNoOp ==
    [][\A c \in CallIds :
          (HungUp(c) /\ Hangup(c)) =>
              /\ ret'.val \notin {"AttributeError", "CommandError",
                                  "TimeoutException"}
              /\ ~ret'.wrote
              /\ UNCHANGED <<calls, activeCalls, txLock, modemCmd, pc>>]_vars

\* The commands connect() has written and what each resolved write ended
\* with.
Sent == ctx[Main].sent
Results == ctx[Main].results

\* connect() has returned without raising.
ConnectCompleted ==
    /\ pc[Main] = "idle"
    /\ ctx[Main].op = "connect"
    /\ ctx[Main].err = ""
    /\ ret = Ret(None, TRUE)

\* The k-th write of connect() was of cmd and ended with CommandError.
ErrorOn(k, cmd) ==
    /\ k <= Len(Results)
    /\ Sent[k] = cmd
    /\ Results[k].exc = "CommandError"

\* C13: bring-up soft-fail.  When AT+CLIP=1 returns an error, the
\* calling-line-identification flag is disabled, AT+CRC=1 is never sent,
\* AT+CVHU=0 is the next command sent and, when it succeeds, connect()
\* completes without raising; when AT+CLIP=1 succeeds and AT+CRC=1 returns an
\* error, only the extended-indication flag is disabled and bring-up goes on
\* with AT+CVHU=0 in the same way.
C13_BringUpSoftFail ==
    \A k \in 1..Len(Results) :
        /\ ErrorOn(k, CLIP) =>
              /\ ~callingLineIdentification
              /\ ~extendedIncomingCallIndication
              /\ \A j \in 1..Len(Sent) : Sent[j] # CRC
              /\ Len(Sent) = k + 1
              /\ Sent[k + 1] = CVHU
              /\ (Len(Results) = k + 1 /\ Results[k + 1].exc = "ok") =>
                    ConnectCompleted
        /\ ErrorOn(k, CRC) =>
              /\ callingLineIdentification
              /\ ~extendedIncomingCallIndication
              /\ Sent[k - 1] = CLIP
              /\ Results[k - 1].exc = "ok"
              /\ Len(Sent) = k + 1
              /\ Sent[k + 1] = CVHU
              /\ (Len(Results) = k + 1 /\ Results[k + 1].exc = "ok") =>
                    ConnectCompleted

\* C13, witness: AT+CLIP=1 returned an error and connect() has completed
\* with caller ID disabled.
C13_CompletedWithoutCallerId ==
    /\ ConnectCompleted
    /\ ~callingLineIdentification
    /\ \E k \in 1..Len(Results) : ErrorOn(k, CLIP)

\* The position of a command in the bring-up order.
Position(cmd) == CHOOSE i \in 1..Len(BringUp) : BringUp[i] = cmd

\* The response to the k-th write of connect() ended with an error line.
ErrorLineOn(k) ==
    /\ Results[k].exc = "ok"
    /\ ContainsERROR(Results[k].lines[Len(Results[k].lines)])

\* C14: bring-up order and fatal steps.  The commands are written in the
\* fixed order ATZ ... AT+CVHU=0 (AT+CRC=1 left out after an error of
\* AT+CLIP=1), each only after the previous one resolved; a write that ends
\* with an exception, on a step other than the error of AT+CLIP=1 and
\* AT+CRC=1, is the last one and connect() raises that exception; an error
\* line in the response to AT+WIND=0 is ignored and AT+CMGF=1 is written
\* next.
C14_BringUpOrder ==
    /\ Len(Sent) > 0 => Sent[1] = ATZ
    /\ \A k \in 1..Len(Sent) :
          /\ \E i \in 1..Len(BringUp) : Sent[k] = BringUp[i]
          /\ k < Len(Sent) =>
                /\ k <= Len(Results)
                /\ \/ Position(Sent[k + 1]) = Position(Sent[k]) + 1
                   \/ ErrorOn(k, CLIP) /\ Sent[k + 1] = CVHU
    /\ Len(Sent) - Len(Results) = IF InFlight = {} /\ pc[Main] = "idle" THEN 0 ELSE 1
    /\ \A k \in 1..Len(Results) :
          /\ (Results[k].exc # "ok" /\ ~ErrorOn(k, CLIP) /\ ~ErrorOn(k, CRC)) =>
                /\ k = Len(Sent)
                /\ ret = Ret(Results[k].exc, TRUE)
                /\ pc[Main] = "idle"
          /\ Sent[k] = WIND =>
                /\ Results[k].exc \in {"ok", "TimeoutException"}
                /\ ErrorLineOn(k) => (Len(Sent) > k /\ Sent[k + 1] = CMGF)

\* C14, witness: the response to AT+WIND=0 was an error line and connect()
\* has gone on to the end of bring-up.
C14_WindErrorIgnored ==
    /\ ConnectCompleted
    /\ Len(Sent) = Len(BringUp)
    /\ \E k \in 1..Len(Results) : Sent[k] = WIND /\ ErrorLineOn(k)

\* A thread resumed in write() with the lines of a response.
Resumed(t) == pc[t] = "w_wake" /\ ~ctx[t].timedOut

\* The final line of the response thread t is resumed with.
FinalLine(t) == ctx[t].resp[Len(ctx[t].resp)]

\* C15: response classification in write().  With parseError true and a
\* final line containing ERROR the write fails with CommandError: of kind
\* CME or CMS with the integer code of the line when the line has the form
\* '+CME ERROR: <digits>' or '+CMS ERROR: <digits>', generic with no code
\* otherwise.  With parseError false, or a final line without ERROR, no
\* CommandError is raised and all received lines are returned, an error line
\* included.
C15_ResponseClassification ==
    \A t \in Threads :
        Resumed(t) =>
            LET out == WriteOutcome(t)
                raw == Outcome("ok", None, <<>>, ctx[t].resp)
            IN  IF ~ctx[t].parseError THEN out = raw
                ELSE CASE FinalLine(t) = LineCME ->
                            out = Outcome("CommandError", "CME", <<30>>, <<>>)
                       [] FinalLine(t) = LineCMS ->
                            out = Outcome("CommandError", "CMS", <<321>>, <<>>)
                       [] FinalLine(t) = LineERROR ->
                            out = Outcome("CommandError", None, <<>>, <<>>)
                       [] OTHER -> out = raw

\* C15, witness: a write with parseError false is resumed with a response
\* whose final line is an error line.
C15_RawErrorLine ==
    \E t \in Threads :
        /\ Resumed(t)
        /\ ~ctx[t].parseError
        /\ FinalLine(t) = LineCME

\* A call of waitForNetworkCoverage has ended.
WaitEnded ==
    /\ pc[Main] = "idle"
    /\ ctx[Main].op = "waitForNetworkCoverage"

\* The readings of signalStrength the call has taken, in order.
Polled == ctx[Main].readings

\* C16: waitForNetworkCoverage returns only a strictly positive reading:
\* the value returned is the first reading of the polling sequence that is
\* > 0 (so never 0 and never -1), every reading before it being
\* non-positive.
C16_ReturnsFirstPositiveReading ==
    (WaitEnded /\ ret.val = "int") =>
        /\ ret.int > 0
        /\ Polled # <<>>
        /\ Polled[Len(Polled)] = ret.int
        /\ \A k \in 1..(Len(Polled) - 1) : Polled[k] <= 0

\* C17: waitForNetworkCoverage cancellation.  When a timeout is supplied
\* and no positive reading arrives, the call ends with the TimeoutException
\* of the polling loop, raised after the countdown has set the stop flag: a
\* call with a timeout that has ended, all of whose readings were
\* non-positive and none of whose commands failed, has ended that way.
C17_TimesOutWithoutPositiveReading ==
    ( /\ WaitEnded
      /\ ctx[Main].timer # "none"
      /\ \A k \in 1..Len(Polled) : Polled[k] <= 0
      /\ ret.at \notin {"write", "signalStrength"} ) =>
        /\ ret = Raises("TimeoutException", "loop")
        /\ ~ctx[Main].block

\* C18: signalStrength sends AT+CSQ and, for a first response line
\* '+CSQ: <n>,...', returns -1 when n = 99 and n itself for every n in
\* 0..MaxCsq; for a first line that does not match the +CSQ grammar it
\* fails with a generic CommandError and returns no value.
C18_SignalStrengthMapping ==
    [][ /\ (ctx[Main].op = "signalStrength" /\ HandsToTransport(Main)) =>
              ctx[Main].cmd = CSQ
        /\ ( /\ ctx[Main].op = "signalStrength"
             /\ Resumed(Main)
             /\ FinalLine(Main) = LineOK
             /\ pc'[Main] = "idle" ) =>
              /\ \A n \in 0..MaxCsq :
                    ctx[Main].resp[1] = CsqLine(n) => ret' = Value(n)
              /\ ctx[Main].resp[1] = CsqLine(CsqUnknown) => ret' = Value(-1)
              /\ ctx[Main].resp[1] = CsqNoDigits =>
                    ret' = Raises("CommandError", "signalStrength") ]_vars

\* C18, witness: the modem reported 99 and signalStrength has returned -1.
C18_UnknownReading ==
    /\ pc[Main] = "idle"
    /\ ctx[Main].op = ""
    /\ ret = Value(-1)

\* A handler thread whose group has not been classified yet.
Unclassified(h) == pc[h] = "start"

\* C19: the classification of a notification group looks at the first line
\* of the group only and applies the rules in order: a first line that
\* contains RING makes it a call notification (the call handler runs);
\* otherwise a first line that starts with +CMTI makes it an SMS
\* notification (the SMS handler runs); otherwise the group is dropped: the
\* thread ends at once, writes no command, leaves the registry as it is and
\* invokes no callback.  Every group gets exactly one of the three.
C19_ClassifiedByFirstLine ==
    /\ [][ \A h \in Handlers :
              (Unclassified(h) /\ ~Unclassified(h)') =>
                  LET firstLine == ctx[h].lines[1]
                      kind == ctx'[h].kind
                  IN  /\ kind \in {"call", "sms", "unhandled"}
                      /\ ContainsRING(firstLine) <=> kind = "call"
                      /\ (~ContainsRING(firstLine)
                             /\ StartsWithCMTI(firstLine)) <=> kind = "sms"
                      /\ kind = "call" => pc'[h] \in {"registry", "dead"}
                      /\ kind = "sms" =>
                            \/ pc'[h] = "w_lock" /\ ctx'[h].op = "read"
                            \/ pc'[h] = "done" /\ CMTI_REGEX(firstLine) = <<>>
                      /\ kind = "unhandled" =>
                            /\ pc'[h] = "done"
                            /\ ctx'[h].cmd = NoCmd
                            /\ activeCalls' = activeCalls ]_vars
    /\ [](\A h \in Handlers :
            ctx[h].kind = "unhandled" =>
                /\ pc[h] = "done"
                /\ log[h] = <<>>
                /\ h \notin InFlight)

\* C19, witness: a group whose second line contains RING and whose first
\* line neither contains RING nor starts with +CMTI has been dropped.
C19_UnhandledDropped ==
    \E h \in Handlers :
        /\ pc[h] = "done"
        /\ ctx[h].kind = "unhandled"
        /\ Len(ctx[h].lines) = 2
        /\ ContainsRING(ctx[h].lines[2])

\* The callbacks a handler thread has invoked.
Callbacks(h) == {k \in 1..Len(log[h]) : log[h][k].ev = "cb"}

\* C20: the handling of a call notification always ends normally with a
\* live call registered under the number the notification resolved to,
\* carrying the call type of the ring line, and with exactly one
\* invocation of the incoming-call callback; the handler never ends
\* without a registered record and the callback.
C20_RingBecomesCallRecord ==
    \A h \in Handlers :
        HandledRing(h) =>
            /\ pc[h] = "done"
            /\ ctx[h].err = ""
            /\ \E e \in EntriesFor(ctx[h].number) :
                  /\ CallState(calls[e[2]]) \in {"RINGING", "ANSWERED"}
                  /\ calls[e[2]].type = ctx[h].type
            /\ Cardinality(Callbacks(h)) = 1

=============================================================================
